---- MODULE Spec2Model ----
(***************************************************************************)
(* A model of the extraction core of bambu-mcp-agent:                      *)
(*   src/src/bambu_mcp/slicer.py  (parse_slicer_output and its helpers)    *)
(*   src/src/bambu_mcp/parser.py  (parse_3mf_metadata and its helper)      *)
(*   src/src/bambu_mcp/server.py  (the three tools and their helpers)      *)
(*                                                                         *)
(* Texts are sequences of one-character strings, so that the regular       *)
(* expressions of the source are matched character by character.  Numbers  *)
(* read from text are kept as exact decimals: weights and lengths in       *)
(* hundredths (Scale).                                                     *)
(***************************************************************************)
EXTENDS Integers, Sequences, FiniteSets, TLC

(***************************************************************************)
(* Characters                                                              *)
(***************************************************************************)
UpperChars == <<"A","B","C","D","E","F","G","H","I","J","K","L","M",
                "N","O","P","Q","R","S","T","U","V","W","X","Y","Z">>
LowerChars == <<"a","b","c","d","e","f","g","h","i","j","k","l","m",
                "n","o","p","q","r","s","t","u","v","w","x","y","z">>

\* str.lower() on one character.
UpperSet == {UpperChars[i] : i \in 1..26}
LowerChar(c) ==
    IF c \in UpperSet
    THEN LowerChars[CHOOSE i \in 1..26 : UpperChars[i] = c]
    ELSE c

\* str.lower()
Lower(s) == [i \in 1..Len(s) |-> LowerChar(s[i])] \o <<>>

DigitChars == <<"0","1","2","3","4","5","6","7","8","9">>
Digits == {DigitChars[i] : i \in 1..10}
\* The whitespace \s matches (of the characters the model's texts use).
Spaces == {" ", "\n", "\t"}

DigitVal(c) == (CHOOSE i \in 1..10 : DigitChars[i] = c) - 1

\* int() of a non-empty run of decimal digits.
RECURSIVE IntOf(_)
IntOf(ds) ==
    IF Len(ds) = 0 THEN 0
    ELSE IntOf(SubSeq(ds, 1, Len(ds) - 1)) * 10 + DigitVal(ds[Len(ds)])

\* str(n) for a natural number n.
RECURSIVE StrOfNat(_)
StrOfNat(n) ==
    IF n < 10 THEN <<DigitChars[n + 1]>>
    ELSE StrOfNat(n \div 10) \o <<DigitChars[(n % 10) + 1]>>

\* `sub in s` for strings.
Contains(s, sub) ==
    \E p \in 1..(Len(s) - Len(sub) + 1) : SubSeq(s, p, p + Len(sub) - 1) = sub

\* s.split("\n")
RECURSIVE SplitLines(_)
SplitLines(s) ==
    IF \A i \in 1..Len(s) : s[i] # "\n" THEN <<s>>
    ELSE LET p == CHOOSE i \in 1..Len(s) :
                      s[i] = "\n" /\ \A j \in 1..(i - 1) : s[j] # "\n"
         IN  <<SubSeq(s, 1, p - 1)>> \o SplitLines(SubSeq(s, p + 1, Len(s)))

\* s.strip() for the whitespace of Spaces.
RECURSIVE Strip(_)
Strip(s) ==
    IF Len(s) = 0 THEN s
    ELSE IF s[1] \in Spaces THEN Strip(Tail(s))
    ELSE IF s[Len(s)] \in Spaces THEN Strip(SubSeq(s, 1, Len(s) - 1))
    ELSE s

(***************************************************************************)
(* re.search with re.IGNORECASE, for the pattern shapes the source uses.   *)
(* A pattern is a sequence of items:                                       *)
(*   Lit(w)        the literal w                                           *)
(*   Alt(ws)       one of the literals ws, tried in the order written      *)
(*                 (an optional group is Alt with the empty word last)     *)
(*   AltCap(ws)    the same as a capture group                             *)
(*   Rep(S, n, c)  at least n characters of S, greedy, giving back one     *)
(*                 character at a time; c = TRUE makes it a capture group  *)
(* A match is [ok, start, end, g]: text[start..end-1] is group(0) and g    *)
(* the captured groups in order.                                           *)
(***************************************************************************)
Lit(w) == [k |-> "alt", opts |-> <<w>>, set |-> {}, min |-> 0, cap |-> FALSE]
Alt(ws) == [k |-> "alt", opts |-> ws, set |-> {}, min |-> 0, cap |-> FALSE]
AltCap(ws) == [k |-> "alt", opts |-> ws, set |-> {}, min |-> 0, cap |-> TRUE]
Rep(S, n, c) == [k |-> "rep", opts |-> <<>>, set |-> S, min |-> n, cap |-> c]

NoMatch == [ok |-> FALSE, start |-> 0, end |-> 0, g |-> <<>>]

\* The length of the longest run of characters of S in txt from pos on.
RECURSIVE RunLen(_, _, _)
RunLen(txt, pos, S) ==
    IF pos <= Len(txt) /\ txt[pos] \in S THEN 1 + RunLen(txt, pos + 1, S) ELSE 0

HasPrefix(txt, pos, w) ==
    /\ pos + Len(w) - 1 <= Len(txt)
    /\ \A i \in 1..Len(w) : txt[pos + i - 1] = w[i]

RECURSIVE MatchFrom(_, _, _, _)
RECURSIVE TryRep(_, _, _, _, _)
RECURSIVE TryAlt(_, _, _, _, _)

\* re[i..] matched at txt[pos..]
MatchFrom(re, i, txt, pos) ==
    IF i > Len(re) THEN [ok |-> TRUE, start |-> 0, end |-> pos, g |-> <<>>]
    ELSE IF re[i].k = "rep" THEN TryRep(re, i, txt, pos, RunLen(txt, pos, re[i].set))
    ELSE TryAlt(re, i, txt, pos, 1)

TryRep(re, i, txt, pos, n) ==
    IF n < re[i].min THEN NoMatch
    ELSE LET r == MatchFrom(re, i + 1, txt, pos + n)
         IN  IF r.ok
             THEN IF re[i].cap
                  THEN [r EXCEPT !.g = <<SubSeq(txt, pos, pos + n - 1)>> \o @]
                  ELSE r
             ELSE TryRep(re, i, txt, pos, n - 1)

TryAlt(re, i, txt, pos, j) ==
    IF j > Len(re[i].opts) THEN NoMatch
    ELSE LET w == re[i].opts[j]
             r == IF HasPrefix(txt, pos, w)
                  THEN MatchFrom(re, i + 1, txt, pos + Len(w))
                  ELSE NoMatch
         IN  IF r.ok
             THEN IF re[i].cap THEN [r EXCEPT !.g = <<w>> \o @] ELSE r
             ELSE TryAlt(re, i, txt, pos, j + 1)

\* re.search(pattern, text, re.IGNORECASE): the leftmost match.  The patterns
\* are written in lower case and matched against the lowered text (every
\* capture group of the source captures digits and dots only, which lowering
\* leaves alone).
Search(re, txt) ==
    LET low == Lower(txt)
        hits == {p \in 1..(Len(txt) + 1) : MatchFrom(re, 1, low, p).ok}
    IN  IF hits = {} THEN NoMatch
        ELSE LET first == CHOOSE p \in hits : \A q \in hits : p <= q
             IN  [MatchFrom(re, 1, low, first) EXCEPT !.start = first]

\* match.group(0)
Group0(txt, m) == SubSeq(txt, m.start, m.end - 1)

(***************************************************************************)
(* Python values.  A value carries its type, as in Python: None, a number  *)
(* (v is the number times Scale, so 12.5 is 1250), a string (v is its      *)
(* characters) or a bool.                                                  *)
(***************************************************************************)
Scale == 100

PyNone == [t |-> "None"]
Num(n) == [t |-> "num", v |-> n]
Str(s) == [t |-> "str", v |-> s]
Bool(b) == [t |-> "bool", v |-> b]
\* A whole number n as a Python value.
Whole(n) == Num(n * Scale)

\* bool(x)
Truthy(x) ==
    CASE x.t = "None" -> FALSE
      [] x.t = "num"  -> x.v # 0
      [] x.t = "str"  -> Len(x.v) > 0
      [] x.t = "bool" -> x.v

\* x or y
PyOr(x, y) == IF Truthy(x) THEN x ELSE y
\* x and y
PyAnd(x, y) == IF Truthy(x) THEN y ELSE x

\* A raised exception, as the outcome of a call.
Raise(e) == [t |-> "raise", exc |-> e]
Raised(x) == "t" \in DOMAIN x /\ x.t = "raise"

\* float() of a captured \d+\.?\d* : its integer digits and fraction digits.
\* Exact for at most two fraction digits, which is all the model's texts hold.
FloatOfDecimal(ip, fp) ==
    Num(IntOf(ip) * Scale
        + (IF Len(fp) = 0 THEN 0
           ELSE IF Len(fp) = 1 THEN IntOf(fp) * 10
           ELSE IntOf(SubSeq(fp, 1, 2))))

(***************************************************************************)
(* slicer.py                                                               *)
(***************************************************************************)
\* DEFAULT_FILAMENT_COST_PER_GRAM = 0.03, in hundredths of a dollar.
DEFAULT_FILAMENT_COST_PER_GRAM_x100 == 3

Sep == Spaces \cup {":"}
HourUnit == <<Lit(<<"h">>), Alt(<< <<"o","u","r","s">>, <<"o","u","r">>, <<>> >>)>>
\* m(?:in(?:utes?)?)?
MinUnitOpt == <<Lit(<<"m">>),
                Alt(<< <<"i","n","u","t","e","s">>, <<"i","n","u","t","e">>,
                       <<"i","n">>, <<>> >>)>>
\* m(?:in(?:utes?)?)
MinUnit == <<Lit(<<"m">>),
             Alt(<< <<"i","n","u","t","e","s">>, <<"i","n","u","t","e">>,
                    <<"i","n">> >>)>>
EstimatedTimeLabel ==
    <<Lit(<<"e","s","t","i","m","a","t","e","d">>), Rep(Spaces, 1, FALSE),
      Lit(<<"t","i","m","e">>), Rep(Sep, 1, FALSE)>>
TimeLabel == <<Lit(<<"t","i","m","e">>), Rep(Sep, 1, FALSE)>>
\* (\d+)\s*h(?:ours?)?\s*(\d+)\s*
HoursThenMinutes ==
    <<Rep(Digits, 1, TRUE), Rep(Spaces, 0, FALSE)>> \o HourUnit
    \o <<Rep(Spaces, 0, FALSE), Rep(Digits, 1, TRUE), Rep(Spaces, 0, FALSE)>>
\* (\d+)\s*
MinutesOnly == <<Rep(Digits, 1, TRUE), Rep(Spaces, 0, FALSE)>>

\* The same six patterns with every hour+minute pattern ahead of every
\* minute-only pattern of the same kind of label.
TimePatternsHourMinuteFirst ==
    << EstimatedTimeLabel \o HoursThenMinutes \o MinUnitOpt,
       TimeLabel \o HoursThenMinutes \o MinUnit,
       EstimatedTimeLabel \o MinutesOnly \o MinUnit,
       TimeLabel \o MinutesOnly \o MinUnit,
       HoursThenMinutes \o MinUnit,
       MinutesOnly \o MinUnit >>

\* The patterns list of _extract_time_from_text, in its order.
TimePatterns ==
    << EstimatedTimeLabel \o HoursThenMinutes \o MinUnitOpt,
       EstimatedTimeLabel \o MinutesOnly \o MinUnit,
       TimeLabel \o HoursThenMinutes \o MinUnit,
       TimeLabel \o MinutesOnly \o MinUnit,
       HoursThenMinutes \o MinUnit,
       MinutesOnly \o MinUnit >>

\* The body of the loop of _extract_time_from_text from pattern i on.
RECURSIVE TimeCascade(_, _, _)
TimeCascade(patterns, text, i) ==
    IF i > Len(patterns) THEN PyNone
    ELSE LET m == Search(patterns[i], text)
         IN  IF ~m.ok THEN TimeCascade(patterns, text, i + 1)
             ELSE IF Len(m.g) = 2
                  THEN Whole(IntOf(m.g[1]) * 60 + IntOf(m.g[2]))
             ELSE IF Len(m.g) = 1
                  THEN IF Contains(Lower(Group0(text, m)), <<"h">>)
                       THEN Whole(IntOf(m.g[1]) * 60)
                       ELSE Whole(IntOf(m.g[1]))
             ELSE TimeCascade(patterns, text, i + 1)

_extract_time_from_text(text) == TimeCascade(TimePatterns, text, 1)

\* (\d+\.?\d*)\s*
Decimal ==
    <<Rep(Digits, 1, TRUE),
      AltCap(<< <<".">>, <<>> >>),
      Rep(Digits, 0, TRUE), Rep(Spaces, 0, FALSE)>>
\* g(?:rams?)?
GramUnit == <<Lit(<<"g">>), Alt(<< <<"r","a","m","s">>, <<"r","a","m">>, <<>> >>)>>
\* m(?:eters?)?
MeterUnit == <<Lit(<<"m">>), Alt(<< <<"e","t","e","r","s">>, <<"e","t","e","r">>, <<>> >>)>>
FilamentWord == <<"f","i","l","a","m","e","n","t">>

WeightPatterns ==
    << <<Lit(FilamentWord), Rep(Spaces, 1, FALSE),
         Lit(<<"w","e","i","g","h","t">>), Rep(Sep, 1, FALSE)>> \o Decimal \o GramUnit,
       <<Lit(<<"w","e","i","g","h","t">>), Rep(Sep, 1, FALSE)>> \o Decimal \o GramUnit,
       Decimal \o GramUnit \o <<Rep(Spaces, 1, FALSE), Lit(FilamentWord)>> >>

LengthPatterns ==
    << <<Lit(FilamentWord), Rep(Spaces, 1, FALSE),
         Lit(<<"l","e","n","g","t","h">>), Rep(Sep, 1, FALSE)>> \o Decimal \o MeterUnit,
       <<Lit(<<"l","e","n","g","t","h">>), Rep(Sep, 1, FALSE)>> \o Decimal \o MeterUnit,
       Decimal \o MeterUnit \o <<Rep(Spaces, 1, FALSE), Lit(FilamentWord)>> >>

\* The loop shared by _extract_weight_from_text and _extract_length_from_text:
\* float(match.group(1)) of the first pattern that matches.
RECURSIVE DecimalCascade(_, _, _)
DecimalCascade(patterns, text, i) ==
    IF i > Len(patterns) THEN PyNone
    ELSE LET m == Search(patterns[i], text)
         IN  IF m.ok THEN FloatOfDecimal(m.g[1], m.g[3])
             ELSE DecimalCascade(patterns, text, i + 1)

_extract_weight_from_text(text) == DecimalCascade(WeightPatterns, text, 1)
_extract_length_from_text(text) == DecimalCascade(LengthPatterns, text, 1)

\* _format_time(minutes), minutes a number or None.
_format_time(minutes) ==
    IF minutes = PyNone THEN PyNone
    ELSE LET hours == minutes.v \div (60 * Scale)
             mins  == (minutes.v % (60 * Scale)) \div Scale
         IN  IF hours > 0 /\ mins > 0
             THEN Str(StrOfNat(hours) \o <<"h", " ">> \o StrOfNat(mins) \o <<"m">>)
             ELSE IF hours > 0 THEN Str(StrOfNat(hours) \o <<"h">>)
             ELSE IF mins > 0 THEN Str(StrOfNat(mins) \o <<"m">>)
             ELSE Str(<<"0", "m">>)

\* round(x, 2) of the exact product weight * cost-per-gram: w is the weight
\* times Scale, so w * 3 is the cost in 1/10000 dollar; the result is the
\* cost times Scale.  Ties go to the even cent.
RoundCost(w) ==
    LET c == w * DEFAULT_FILAMENT_COST_PER_GRAM_x100
        q == c \div Scale
        r == c % Scale
    IN  IF 2 * r > Scale \/ (2 * r = Scale /\ q % 2 = 1) THEN q + 1 ELSE q

\* The record both strategies build from the three extracted values
\* (lines 168-172 and 184-191, and again 201-211).
MetricsRecord(time_minutes, weight_grams, length_meters, warnings) ==
    LET cost_usd == IF Truthy(weight_grams) THEN weight_grams ELSE PyNone
        time_formatted == IF Truthy(time_minutes) THEN _format_time(time_minutes)
                          ELSE PyNone
    IN  [estimated_time_minutes   |-> time_minutes,
         estimated_time_formatted |-> time_formatted,
         filament_weight_grams    |-> weight_grams,
         filament_length_meters   |-> length_meters,
         estimated_cost_usd       |-> IF Truthy(cost_usd)
                                      THEN Num(RoundCost(cost_usd.v)) ELSE PyNone,
         warnings                 |-> warnings]

\* _extract_from_json(data, warnings).  data maps each accepted key to its
\* value, None for a key the file does not hold (data.get).  Multiplying a
\* string by the cost constant, or formatting a string as a time, raises
\* TypeError.
_extract_from_json(data, warnings) ==
    LET time_minutes  == PyOr(data.estimated_time_minutes, data.time_minutes)
        weight_grams  == PyOr(data.filament_weight_grams, data.weight_grams)
        length_meters == PyOr(data.filament_length_meters, data.length_meters)
    IN  IF Truthy(weight_grams) /\ weight_grams.t = "str" THEN Raise("TypeError")
        ELSE IF Truthy(time_minutes) /\ time_minutes.t = "str" THEN Raise("TypeError")
        ELSE MetricsRecord(time_minutes, weight_grams, length_meters, warnings)

\* The first JSON file of the output directory, read and handed to
\* _extract_from_json (lines 152-154): json.load raises on a file that is not
\* JSON, and data.get on a document that is not an object.
JsonStrategy(output_dir, warnings) ==
    CASE output_dir.k = "malformed" -> Raise("JSONDecodeError")
      [] output_dir.k = "notdict"   -> Raise("AttributeError")
      [] output_dir.k = "object"    -> _extract_from_json(output_dir.data, warnings)

\* Whether a line (or the whole output) mentions a warning or an error.
MentionsWarning(s) ==
    \/ Contains(Lower(s), <<"w","a","r","n","i","n","g">>)
    \/ Contains(Lower(s), <<"e","r","r","o","r">>)

\* [line.strip() for line in lines if "warning" in ... or "error" in ...]
RECURSIVE WarningLines(_)
WarningLines(lines) ==
    IF Len(lines) = 0 THEN <<>>
    ELSE (IF MentionsWarning(lines[1]) THEN <<Strip(lines[1])>> ELSE <<>>)
         \o WarningLines(Tail(lines))

\* The number of warnings kept (warning_lines[:5]).
MAX_WARNINGS == 5

\* Strategy 2 of parse_slicer_output (lines 158-191).
TextStrategy(stdout, stderr) ==
    LET combined_output == stdout \o <<"\n">> \o stderr
        warning_lines == IF MentionsWarning(combined_output)
                         THEN WarningLines(SplitLines(combined_output))
                         ELSE <<>>
    IN  MetricsRecord(_extract_time_from_text(combined_output),
                      _extract_weight_from_text(combined_output),
                      _extract_length_from_text(combined_output),
                      SubSeq(warning_lines, 1,
                             IF Len(warning_lines) < MAX_WARNINGS
                             THEN Len(warning_lines) ELSE MAX_WARNINGS))

\* A parse_slicer_output whose JSON strategy also collects the warning lines
\* of the text output.
ParseSlicerOutputMergingText(output_dir, stdout, stderr) ==
    IF output_dir.k # "nofile" /\ ~Raised(JsonStrategy(output_dir, <<>>))
    THEN [JsonStrategy(output_dir, <<>>) EXCEPT
            !.warnings = TextStrategy(stdout, stderr).warnings]
    ELSE TextStrategy(stdout, stderr)

\* parse_slicer_output(output_dir, stdout, stderr).  output_dir is what
\* output_dir.glob("*.json") finds: no file, or the first file's content.
parse_slicer_output(output_dir, stdout, stderr) ==
    IF output_dir.k # "nofile" /\ ~Raised(JsonStrategy(output_dir, <<>>))
    THEN JsonStrategy(output_dir, <<>>)
    ELSE TextStrategy(stdout, stderr)

(***************************************************************************)
(* parser.py                                                               *)
(***************************************************************************)
\* The time_patterns list of _extract_time_estimate, in its order.
EstimatePatterns ==
    << HoursThenMinutes \o MinUnitOpt,
       MinutesOnly \o MinUnitOpt,
       <<Rep(Digits, 1, TRUE), Rep(Spaces, 0, FALSE)>> \o HourUnit >>

\* The loop of _extract_time_estimate from pattern i on.
RECURSIVE EstimateCascade(_, _)
EstimateCascade(line, i) ==
    IF i > Len(EstimatePatterns) THEN PyNone
    ELSE LET m == Search(EstimatePatterns[i], line)
         IN  IF ~m.ok THEN EstimateCascade(line, i + 1)
             ELSE IF Len(m.g) = 2
                  THEN Str(m.g[1] \o <<"h", " ">> \o m.g[2] \o <<"m">>)
             ELSE IF Len(m.g) = 1
                  THEN IF Contains(Lower(line), <<"h">>)
                       THEN Str(m.g[1] \o <<"h">>)
                       ELSE Str(m.g[1] \o <<"m">>)
             ELSE EstimateCascade(line, i + 1)

_extract_time_estimate(line) == EstimateCascade(line, 1)

\* Whether every character of s is a decimal digit.
AllDigits(s) == \A i \in 1..Len(s) : s[i] \in Digits

\* float(value) of a string: surrounding whitespace is dropped; digits with
\* an optional point are a number, any other text of the model's alphabet
\* (letters, a percent sign) raises ValueError.
PyFloat(value) ==
    LET s == Strip(value)
        dots == {i \in 1..Len(s) : s[i] = "."}
    IN  IF Len(s) > 0 /\ AllDigits(s) THEN FloatOfDecimal(s, <<>>)
        ELSE IF /\ Cardinality(dots) = 1
                /\ Len(s) > 1
                /\ \A i \in (1..Len(s)) \ dots : s[i] \in Digits
             THEN LET d == CHOOSE i \in dots : TRUE
                  IN  FloatOfDecimal(SubSeq(s, 1, d - 1), SubSeq(s, d + 1, Len(s)))
        ELSE Raise("ValueError")

\* int(value) of a string.
PyInt(value) ==
    LET s == Strip(value)
    IN  IF Len(s) > 0 /\ AllDigits(s) THEN Whole(IntOf(s)) ELSE Raise("ValueError")

\* str(x) of a float x >= 0 (as an f-string formats it): the integer part, a
\* point and the fraction without trailing zeros, "0" for a whole number.
FloatRepr(x) ==
    LET frac == x.v % Scale
    IN  StrOfNat(x.v \div Scale) \o <<".">> \o
        (IF frac % 10 = 0 THEN StrOfNat(frac \div 10)
         ELSE <<DigitChars[(frac \div 10) + 1], DigitChars[(frac % 10) + 1]>>)

TrueWords == { <<"t","r","u","e">>, <<"1">>, <<"y","e","s">> }

\* The metadata dictionary of lines 34-43.
EmptyMetadata ==
    [filament_type |-> PyNone, nozzle_diameter |-> PyNone, layer_height |-> PyNone,
     infill_density |-> PyNone, wall_loops |-> PyNone, support_enabled |-> PyNone,
     previously_sliced |-> Bool(FALSE), last_estimate |-> PyNone]

\* f"{value}mm" if value else None
WithMm(value) == IF Truthy(value) THEN Str(value.v \o <<"m","m">>) ELSE PyNone

\* One iteration of the loop over the <option> elements (lines 68-91).
\* value is option.text: None for an element without text.
ApplyOption(metadata, key, value) ==
    CASE key = "filament_type" -> [metadata EXCEPT !.filament_type = value]
      [] key = "nozzle_diameter" -> [metadata EXCEPT !.nozzle_diameter = WithMm(value)]
      [] key = "layer_height" -> [metadata EXCEPT !.layer_height = WithMm(value)]
      [] key = "sparse_infill_density" ->
            LET density == IF Truthy(value) THEN PyFloat(value.v) ELSE PyNone
            IN  IF Raised(density) \/ density = PyNone THEN metadata
                ELSE [metadata EXCEPT
                        !.infill_density = Str(FloatRepr(density) \o <<"%">>)]
      [] key = "wall_loops" ->
            LET n == IF Truthy(value) THEN PyInt(value.v) ELSE PyNone
            IN  IF Raised(n) THEN metadata
                ELSE [metadata EXCEPT !.wall_loops = n]
      [] key = "support_enable" ->
            [metadata EXCEPT !.support_enabled =
                IF Truthy(value) THEN Bool(Lower(value.v) \in TrueWords) ELSE value]
      [] OTHER -> metadata

\* The loop over root.findall(".//option").
RECURSIVE ApplyOptions(_, _)
ApplyOptions(metadata, options) ==
    IF Len(options) = 0 THEN metadata
    ELSE ApplyOptions(ApplyOption(metadata, options[1].key, options[1].value),
                      Tail(options))

\* The loop over the lines of slice_info.config (lines 53-56).
RECURSIVE ScanSliceInfo(_, _)
ScanSliceInfo(last_estimate, lines) ==
    IF Len(lines) = 0 THEN last_estimate
    ELSE ScanSliceInfo(
            IF \/ Contains(Lower(lines[1]),
                           <<"e","s","t","i","m","a","t","e","d","_","t","i","m","e">>)
               \/ Contains(Lower(lines[1]), <<"t","i","m","e">>)
            THEN _extract_time_estimate(lines[1])
            ELSE last_estimate,
            Tail(lines))

\* Lines 48-58: the slice-info entry.  An entry that is not UTF-8 raises in
\* decode, which the inner handler logs.
AfterSliceInfo(metadata, slice_info) ==
    IF slice_info.k = "absent" THEN metadata
    ELSE IF slice_info.k = "undecodable"
         THEN [metadata EXCEPT !.previously_sliced = Bool(TRUE)]
    ELSE [metadata EXCEPT
            !.previously_sliced = Bool(TRUE),
            !.last_estimate = ScanSliceInfo(@, SplitLines(slice_info.text))]

\* A settings step that keeps the options read before the place where a
\* malformed entry breaks.
AfterOrcaConfigKeepingReadOptions(metadata, orca) ==
    IF orca.k \in {"xml", "malformed"}
    THEN ApplyOptions(metadata, orca.options) ELSE metadata

\* Lines 61-98: the settings entry.  decode and ET.fromstring run before the
\* loop: on an entry that is not UTF-8, or not well-formed XML (whatever
\* elements precede the error), they raise, which is logged and leaves
\* metadata as it was.
AfterOrcaConfig(metadata, orca) ==
    IF orca.k = "xml" THEN ApplyOptions(metadata, orca.options) ELSE metadata

DOT_3MF == <<".","3","m","f">>

\* parse_3mf_metadata(file_path).  file is what the path names: whether it
\* exists, its suffix, what zipfile.ZipFile does on opening it, and the two
\* entries of the archive.
parse_3mf_metadata(file) ==
    IF ~file.exists THEN Raise("FileNotFoundError")
    ELSE IF Lower(file.suffix) # DOT_3MF THEN Raise("ValueError")
    ELSE IF file.open = "BadZipFile" THEN Raise("ValueError")
    ELSE IF file.open # "ok" THEN Raise(file.open)
    ELSE [t |-> "ok",
          metadata |-> AfterOrcaConfig(AfterSliceInfo(EmptyMetadata, file.slice_info),
                                       file.orca)]

(***************************************************************************)
(* The inputs the functions are applied to                                 *)
(***************************************************************************)
\* The sequences over S of length at most n.
SeqsUpTo(S, n) == UNION {[1..m -> S] : m \in 0..n}

\* "sep".join(parts)
RECURSIVE Join(_, _)
Join(parts, sep) ==
    IF Len(parts) = 0 THEN <<>>
    ELSE IF Len(parts) = 1 THEN parts[1]
    ELSE parts[1] \o sep \o Join(Tail(parts), sep)

\* Texts for _extract_time_from_text: up to MaxForms forms separated by a
\* space, a form being a label (or none) followed by a duration (or a word).
MaxForms == 2
TimeLabels ==
    << <<>>,
       <<"E","s","t","i","m","a","t","e","d"," ","t","i","m","e",":"," ">>,
       <<"e","s","t","i","m","a","t","e","d","_","t","i","m","e",":"," ">>,
       <<"t","i","m","e",":"," ">> >>
TimeDurations ==
    << <<"1","h"," ","1","5","m">>,
       <<"2"," ","h","o","u","r","s"," ","5"," ","m","i","n","u","t","e","s">>,
       <<"7","5"," ","m","i","n","u","t","e","s">>,
       <<"9","m">>,
       <<"2","h">>,
       <<"s","o","o","n">> >>
TimeForms ==
    {TimeLabels[i] \o TimeDurations[j] :
        i \in 1..Len(TimeLabels), j \in 1..Len(TimeDurations)}
TimeTexts == {Join(fs, <<" ">>) : fs \in SeqsUpTo(TimeForms, MaxForms)}

\* Slicer output: stdout of up to MaxStdoutLines lines, stderr empty or one
\* line, and the output directory: without a JSON file, or with a first JSON
\* file that is not JSON, is not an object, or is an object holding at most
\* MaxJsonKeys of the accepted keys.
MaxStdoutLines == 2
MaxJsonKeys == 2
OutputLines ==
    << <<"E","s","t","i","m","a","t","e","d"," ","t","i","m","e",":"," ","1","h"," ","1","5","m">>,
       <<"t","i","m","e",":"," ","0"," ","m","i","n">>,
       <<"w","e","i","g","h","t",":"," ","0"," ","g">>,
       <<"F","i","l","a","m","e","n","t"," ","w","e","i","g","h","t",":"," ","1","2",".","4"," ","g","r","a","m","s">>,
       <<"l","e","n","g","t","h",":"," ","4",".","1"," ","m">>,
       <<"W","a","r","n","i","n","g",":"," ","t","h","i","n"," ","w","a","l","l">> >>
Stdouts == {Join(ls, <<"\n">>) : ls \in SeqsUpTo({OutputLines[i] : i \in 1..Len(OutputLines)}, MaxStdoutLines)}
Stderrs == { <<>>, <<"e","r","r","o","r",":"," ","e","x","i","t">> }

JsonKeys == {"estimated_time_minutes", "time_minutes", "filament_weight_grams",
             "weight_grams", "filament_length_meters", "length_meters"}
\* The values a key may hold when present (a missing key reads as None).
JsonValuesOf(key) ==
    CASE key = "estimated_time_minutes" -> {Whole(0), Whole(75)}
      [] key = "time_minutes" -> {Whole(0), Whole(120)}
      [] key = "filament_weight_grams" -> {Whole(0), Num(1240), Str(<<"x">>)}
      [] key = "weight_grams" -> {Num(40)}
      [] key = "filament_length_meters" -> {Num(410)}
      [] key = "length_meters" -> {Whole(2)}
JsonObjects ==
    {d \in [JsonKeys -> {PyNone} \cup UNION {JsonValuesOf(k) : k \in JsonKeys}] :
        /\ \A k \in JsonKeys : d[k] # PyNone => d[k] \in JsonValuesOf(k)
        /\ Cardinality({k \in JsonKeys : d[k] # PyNone}) <= MaxJsonKeys}
OutputDirs ==
    {[k |-> "nofile"], [k |-> "malformed"], [k |-> "notdict"]}
    \cup {[k |-> "object", data |-> d] : d \in JsonObjects}

\* Archives for parse_3mf_metadata: a slice-info entry of up to MaxInfoLines
\* lines and a settings entry of up to MaxOptions <option> elements; a
\* settings entry that is not well-formed XML holds up to MaxBrokenOptions
\* <option> elements before the place where it breaks.
MaxInfoLines == 2
MaxOptions == 2
MaxBrokenOptions == 1
InfoLines ==
    << <<"e","s","t","i","m","a","t","e","d","_","t","i","m","e",":"," ","7","5"," ","m","i","n","u","t","e","s">>,
       <<"p","r","i","n","t"," ","t","i","m","e"," ","u","n","k","n","o","w","n">>,
       <<"p","r","i","n","t"," ","t","i","m","e"," ","2","h"," ","5","m">> >>
Option(key, value) == [key |-> key, value |-> value]
Options ==
    { Option("filament_type", Str(<<"P","L","A">>)),
      Option("nozzle_diameter", Str(<<"0",".","4">>)),
      Option("layer_height", PyNone),
      Option("sparse_infill_density", Str(<<"2","0">>)),
      Option("sparse_infill_density", Str(<<"0">>)),
      Option("sparse_infill_density", Str(<<"a","b","c">>)),
      Option("sparse_infill_density", PyNone),
      Option("wall_loops", Str(<<"3">>)),
      Option("wall_loops", Str(<<"x">>)),
      Option("support_enable", Str(<<"T","r","u","e">>)),
      Option("support_enable", Str(<<"n","o">>)),
      Option("support_enable", PyNone),
      Option("unknown_key", Str(<<"x">>)) }
SliceInfos ==
    {[k |-> "absent"], [k |-> "undecodable"]}
    \cup {[k |-> "text", text |-> Join(ls, <<"\n">>)] :
            ls \in SeqsUpTo({InfoLines[i] : i \in 1..Len(InfoLines)}, MaxInfoLines)}
OrcaConfigs ==
    {[k |-> "absent"], [k |-> "undecodable"]}
    \cup {[k |-> "malformed", options |-> os] :
            os \in SeqsUpTo(Options, MaxBrokenOptions)}
    \cup {[k |-> "xml", options |-> os] : os \in SeqsUpTo(Options, MaxOptions)}
ArchiveSuffixes == { <<".","3","m","f">>, <<".","3","M","F">> }
Suffixes == ArchiveSuffixes \cup { <<".","s","t","l">> }
File(exists, suffix, open, slice_info, orca) ==
    [exists |-> exists, suffix |-> suffix, open |-> open,
     slice_info |-> slice_info, orca |-> orca]
\* Paths that name nothing; paths that name something zipfile cannot open
\* (not a zip: BadZipFile; a directory or an unreadable file: OSError);
\* archives named *.3mf, and archives under another name.
Files ==
    {File(FALSE, sfx, "ok", [k |-> "absent"], [k |-> "absent"]) : sfx \in Suffixes}
    \cup {File(TRUE, sfx, o, [k |-> "absent"], [k |-> "absent"]) :
            sfx \in Suffixes, o \in {"BadZipFile", "OSError"}}
    \cup {File(TRUE, sfx, "ok", si, oc) :
            sfx \in ArchiveSuffixes, si \in SliceInfos, oc \in OrcaConfigs}
    \cup {File(TRUE, sfx, "ok", si, [k |-> "absent"]) :
            sfx \in Suffixes \ ArchiveSuffixes, si \in SliceInfos}

(***************************************************************************)
(* The state: a call in progress.  args is the call (the function and its  *)
(* arguments), ret what it returned or raised, pc whether it has run.      *)
(***************************************************************************)
VARIABLES pc, args, ret

\* The state of the server (server.py): the tool calls in flight, the
\* scratch directory SLICE_OUTPUT_DIR, the number of tool calls served and
\* what the machine holds (the slicer binary, the model file, the profile
\* files).  A call of one of the pure functions above leaves it alone.
VARIABLES calls, slice_output, served, env
server == <<calls, slice_output, served, env>>
vars == <<pc, args, ret, calls, slice_output, served, env>>
NoServer == calls = <<>> /\ slice_output = <<>> /\ served = 0 /\ env = <<>>

InitTime ==
    /\ pc = "start"
    /\ args \in {[fn |-> "_extract_time_from_text", text |-> t] : t \in TimeTexts}
    /\ ret = PyNone
    /\ NoServer

InitSlicer ==
    /\ pc = "start"
    /\ args \in {[fn |-> "parse_slicer_output", output_dir |-> d, stdout |-> o,
                  stderr |-> e] : d \in OutputDirs, o \in Stdouts, e \in Stderrs}
    /\ ret = PyNone
    /\ NoServer

InitParser ==
    /\ pc = "start"
    /\ args \in {[fn |-> "parse_3mf_metadata", file |-> f] : f \in Files}
    /\ ret = PyNone
    /\ NoServer

Init == InitTime \/ InitSlicer \/ InitParser

ExtractTime ==
    /\ pc = "start"
    /\ args.fn = "_extract_time_from_text"
    /\ ret' = _extract_time_from_text(args.text)
    /\ pc' = "done"
    /\ UNCHANGED <<args, server>>

ParseSlicerOutput ==
    /\ pc = "start"
    /\ args.fn = "parse_slicer_output"
    /\ ret' = parse_slicer_output(args.output_dir, args.stdout, args.stderr)
    /\ pc' = "done"
    /\ UNCHANGED <<args, server>>

Parse3mfMetadata ==
    /\ pc = "start"
    /\ args.fn = "parse_3mf_metadata"
    /\ ret' = parse_3mf_metadata(args.file)
    /\ pc' = "done"
    /\ UNCHANGED <<args, server>>

Next == ExtractTime \/ ParseSlicerOutput \/ Parse3mfMetadata

Spec == Init /\ [][Next]_vars
SpecTime == InitTime /\ [][ExtractTime]_vars
SpecSlicer == InitSlicer /\ [][ParseSlicerOutput]_vars
SpecParser == InitParser /\ [][Parse3mfMetadata]_vars

(***************************************************************************)
(* parse_3mf_metadata: claims C1-C5                                        *)
(***************************************************************************)
\* A call of parse_3mf_metadata that returned a Metadata record.
Parsed == pc = "done" /\ args.fn = "parse_3mf_metadata" /\ ret.t = "ok"
\* ... on an archive whose settings entry is well-formed XML.
ParsedXml == Parsed /\ args.file.orca.k = "xml"

\* The raw values, in document order, of the options with the given key.
ValuesOf(options, key) ==
    SelectSeq(options, LAMBDA o : o.key = key)

\* C1: whenever the settings XML holds an option with the support key,
\* support_enabled is a boolean -- true iff the raw value (of the last such
\* option), lowered, is one of true/1/yes, false for every other raw value,
\* the empty one included -- and never None; it is None only if the key is
\* absent.
C1_SupportEnabledIsBooleanIffKeyPresent ==
    ParsedXml =>
        LET raw == ValuesOf(args.file.orca.options, "support_enable")
        IN  IF Len(raw) = 0
            THEN ret.metadata.support_enabled = PyNone
            ELSE ret.metadata.support_enabled =
                    Bool(/\ raw[Len(raw)].value # PyNone
                         /\ Lower(raw[Len(raw)].value.v) \in TrueWords)

\* A raw value that reads as a number: digits with an optional point.
NumericText(value) == value # PyNone /\ ~Raised(PyFloat(value.v))

\* C2: when the settings XML holds one infill-density option, infill_density
\* is its raw value followed by a percent sign if the raw value is numeric
\* ("20" gives "20%", "0" gives "0%"), and None if it is empty or not numeric.
C2_InfillIsRawValueWithPercent ==
    ParsedXml =>
        LET raw == ValuesOf(args.file.orca.options, "sparse_infill_density")
        IN  Len(raw) = 1 =>
                ret.metadata.infill_density =
                    IF NumericText(raw[1].value)
                    THEN Str(raw[1].value.v \o <<"%">>)
                    ELSE PyNone

\* C3: parse_3mf_metadata has exactly two fatal outcomes: NotFound
\* (FileNotFoundError) when the path does not exist, whatever its suffix, and
\* InvalidFormat (ValueError) when the path exists but its suffix is not .3mf
\* or it cannot be opened as a zip container; on every other input it returns
\* a Metadata record.
C3_ExactlyTwoFatalOutcomes ==
    (pc = "done" /\ args.fn = "parse_3mf_metadata") =>
        IF ~args.file.exists THEN ret = Raise("FileNotFoundError")
        ELSE IF Lower(args.file.suffix) # DOT_3MF \/ args.file.open # "ok"
             THEN ret = Raise("ValueError")
        ELSE ret.t = "ok"

\* What the slice-info entry alone determines: whether the archive was
\* sliced before, and the estimate read from the entry's lines.
SlicedBefore(slice_info) == Bool(slice_info.k # "absent")
EstimateOf(slice_info) ==
    IF slice_info.k = "text"
    THEN ScanSliceInfo(PyNone, SplitLines(slice_info.text))
    ELSE PyNone

ConfigFields == {"filament_type", "nozzle_diameter", "layer_height",
                 "infill_density", "wall_loops", "support_enabled"}

\* C4: when the archive opens and its settings entry is malformed XML or
\* absent, parse_3mf_metadata returns a record whose six config-derived
\* fields are all None, and whose previously_sliced and last_estimate are
\* what the slice-info entry alone determines.
C4_MalformedOrAbsentSettingsLeaveConfigNone ==
    (/\ pc = "done" /\ args.fn = "parse_3mf_metadata"
     /\ args.file.exists /\ Lower(args.file.suffix) = DOT_3MF
     /\ args.file.open = "ok"
     /\ args.file.orca.k \in {"malformed", "absent"}) =>
        /\ ret.t = "ok"
        /\ \A f \in ConfigFields : ret.metadata[f] = PyNone
        /\ ret.metadata.previously_sliced = SlicedBefore(args.file.slice_info)
        /\ ret.metadata.last_estimate = EstimateOf(args.file.slice_info)

\* C4's case: a malformed settings entry that holds a whitelisted option
\* with a value before the place where it breaks, in an archive sliced before with an
\* estimate.
C4_Witness ==
    /\ Parsed
    /\ args.file.orca.k = "malformed"
    /\ Len(args.file.orca.options) > 0
    /\ args.file.orca.options[1].value # PyNone
    /\ ret.metadata.previously_sliced = Bool(TRUE)
    /\ ret.metadata.last_estimate # PyNone

\* Whether a line holds a time-like token.
TimeLike(line) == Contains(Lower(line), <<"t","i","m","e">>)

\* The estimate of the first time-like line on which extraction succeeds.
RECURSIVE FirstSuccessfulEstimate(_)
FirstSuccessfulEstimate(lines) ==
    IF Len(lines) = 0 THEN PyNone
    ELSE IF TimeLike(lines[1]) /\ _extract_time_estimate(lines[1]) # PyNone
         THEN _extract_time_estimate(lines[1])
    ELSE FirstSuccessfulEstimate(Tail(lines))

\* C5: last_estimate is the estimate extracted from the first time-like line
\* of the slice-info entry on which extraction succeeds; no later line,
\* whether it gives another estimate or none, changes or clears it.
C5_FirstSuccessfulLineWins ==
    (Parsed /\ args.file.slice_info.k = "text") =>
        ret.metadata.last_estimate =
            FirstSuccessfulEstimate(SplitLines(args.file.slice_info.text))

(***************************************************************************)
(* _extract_time_from_text: claims C6 and C7                               *)
(***************************************************************************)
TimeDone == pc = "done" /\ args.fn = "_extract_time_from_text"

\* The forms of a duration, each written with short or long unit words.
HourMinuteForm == HoursThenMinutes \o MinUnitOpt
MinuteForm == MinutesOnly \o MinUnitOpt
HourForm == <<Rep(Digits, 1, TRUE), Rep(Spaces, 0, FALSE)>> \o HourUnit

\* The minutes value of the form a text holds, None if it holds none.
MinutesOfForm(text) ==
    LET hm == Search(HourMinuteForm, text)
        mo == Search(MinuteForm, text)
        ho == Search(HourForm, text)
    IN  IF hm.ok THEN Whole(IntOf(hm.g[1]) * 60 + IntOf(hm.g[2]))
        ELSE IF mo.ok THEN Whole(IntOf(mo.g[1]))
        ELSE IF ho.ok THEN Whole(IntOf(ho.g[1]) * 60)
        ELSE PyNone

\* C6: on a text that holds one duration, _extract_time_from_text returns
\* the minutes value of the form written there -- H*60+M for an hour+minute
\* form with short or long unit words ("estimated_time: 1h 15m" gives 75), M
\* for a minute-only form, H*60 for an hour form standing alone -- and None
\* only when the text holds none of these forms.
C6_ReturnsMinutesOfTheFormPresent ==
    (TimeDone /\ args.text \in TimeForms) => ret = MinutesOfForm(args.text)

\* The six steps of the cascade, each by the label and the form it looks for.
EstimatedTimeHourMinute == EstimatedTimeLabel \o HoursThenMinutes \o MinUnitOpt
EstimatedTimeMinutes == EstimatedTimeLabel \o MinutesOnly \o MinUnit
TimeHourMinute == TimeLabel \o HoursThenMinutes \o MinUnit
TimeMinutes == TimeLabel \o MinutesOnly \o MinUnit
BareHourMinute == HoursThenMinutes \o MinUnit
BareMinutes == MinutesOnly \o MinUnit

Matches(step, text) == Search(step, text).ok
HourMinuteValue(step, text) ==
    LET m == Search(step, text)
    IN  Whole(IntOf(m.g[1]) * 60 + IntOf(m.g[2]))
MinutesValue(step, text) == Whole(IntOf(Search(step, text).g[1]))

\* C7 as stated: whenever a labeled hour+minute form is present, its value
\* is returned, even if a labeled minute-only form also occurs.
C7_LabeledHourMinuteAlwaysWins ==
    TimeDone =>
        LET text == args.text
        IN  IF Matches(EstimatedTimeHourMinute, text)
            THEN ret = HourMinuteValue(EstimatedTimeHourMinute, text)
            ELSE Matches(TimeHourMinute, text) =>
                    ret = HourMinuteValue(TimeHourMinute, text)

\* C7 (amended): the cascade has six steps in the strict order 'estimated
\* time' hour+minute, 'estimated time' minute-only, 'time' hour+minute,
\* 'time' minute-only, bare hour+minute, bare minute-only, and
\* _extract_time_from_text returns the result of the first step that matches
\* anywhere in the text; so an 'estimated time' minute-only form is preferred
\* to a 'time' hour+minute form, and when a labeled step matches no bare
\* number decides the result.
C7_SixStepsInStrictOrder ==
    TimeDone =>
        LET text == args.text
        IN  ret =
            IF Matches(EstimatedTimeHourMinute, text)
            THEN HourMinuteValue(EstimatedTimeHourMinute, text)
            ELSE IF Matches(EstimatedTimeMinutes, text)
            THEN MinutesValue(EstimatedTimeMinutes, text)
            ELSE IF Matches(TimeHourMinute, text)
            THEN HourMinuteValue(TimeHourMinute, text)
            ELSE IF Matches(TimeMinutes, text)
            THEN MinutesValue(TimeMinutes, text)
            ELSE IF Matches(BareHourMinute, text)
            THEN HourMinuteValue(BareHourMinute, text)
            ELSE IF Matches(BareMinutes, text)
            THEN MinutesValue(BareMinutes, text)
            ELSE PyNone

\* C7's case: a text with a 'time' hour+minute form and an 'estimated time'
\* minute-only form of another value, where the minute-only form decided.
C7_Witness ==
    /\ TimeDone
    /\ ~Matches(EstimatedTimeHourMinute, args.text)
    /\ Matches(EstimatedTimeMinutes, args.text)
    /\ Matches(TimeHourMinute, args.text)
    /\ HourMinuteValue(TimeHourMinute, args.text)
           # MinutesValue(EstimatedTimeMinutes, args.text)
    /\ ret = MinutesValue(EstimatedTimeMinutes, args.text)

(***************************************************************************)
(* parse_slicer_output: claims C8-C10                                      *)
(***************************************************************************)
SlicerDone == pc = "done" /\ args.fn = "parse_slicer_output"
CombinedOutput == args.stdout \o <<"\n">> \o args.stderr

\* The accepted key names of each field that comes from the JSON file.
AcceptedKeys ==
    [estimated_time_minutes |-> {"estimated_time_minutes", "time_minutes"},
     filament_weight_grams  |-> {"filament_weight_grams", "weight_grams"},
     filament_length_meters |-> {"filament_length_meters", "length_meters"}]
\* The fields derived from each of them.
DerivedFields ==
    [estimated_time_minutes |-> {"estimated_time_minutes", "estimated_time_formatted"},
     filament_weight_grams  |-> {"filament_weight_grams", "estimated_cost_usd"},
     filament_length_meters |-> {"filament_length_meters"}]

\* The record is derived from the JSON document data alone.
FromJsonAlone(data) ==
    /\ ret.warnings = <<>>
    /\ \A f \in DOMAIN AcceptedKeys :
          (\A k \in AcceptedKeys[f] : data[k] = PyNone) =>
              \A g \in DerivedFields[f] : ret[g] = PyNone

\* C8 as stated: whenever the output directory holds a JSON file, whatever
\* it holds, warnings is empty and no field comes from stdout/stderr.
C8_AnyJsonFileSilencesText ==
    (SlicerDone /\ args.output_dir.k # "nofile") =>
        /\ ret.warnings = <<>>
        /\ args.output_dir.k = "object" => FromJsonAlone(args.output_dir.data)
        /\ args.output_dir.k # "object" =>
              \A f \in DOMAIN DerivedFields :
                  \A g \in DerivedFields[f] : ret[g] = PyNone

\* A first JSON file that is read and extracted without an exception: a
\* JSON object whose values under the accepted keys are numbers.
ReadableJson(output_dir) ==
    /\ output_dir.k = "object"
    /\ \A k \in JsonKeys : output_dir.data[k].t \in {"None", "num"}

\* C8 (amended): whenever the output directory holds a JSON file and the
\* first one is read and extracted without an exception (a JSON object whose
\* values under the accepted keys are numbers), the record is derived from
\* that file alone: every field whose accepted key names are all missing is
\* None even if stdout/stderr holds a matching pattern, and warnings is empty
\* even if stdout/stderr holds warning or error lines.  A file that cannot
\* be read hands the output to the text strategy.
C8_ReadableJsonSilencesText ==
    (SlicerDone /\ ReadableJson(args.output_dir)) =>
        FromJsonAlone(args.output_dir.data)

\* C8's case: a readable JSON file without a time key, next to text that
\* holds a time pattern and a warning line.
C8_Witness ==
    /\ SlicerDone
    /\ ReadableJson(args.output_dir)
    /\ \A k \in AcceptedKeys.estimated_time_minutes :
          args.output_dir.data[k] = PyNone
    /\ _extract_time_from_text(CombinedOutput) # PyNone
    /\ MentionsWarning(CombinedOutput)
    /\ ret.estimated_time_minutes = PyNone
    /\ ret.warnings = <<>>

\* C9: in every record of parse_slicer_output, estimated_cost_usd is None
\* exactly when filament_weight_grams is None; a known weight, 0 included,
\* gives weight * 0.03 rounded to two decimals.
C9_CostKnownIffWeightKnown ==
    SlicerDone =>
        /\ ret.estimated_cost_usd = PyNone <=> ret.filament_weight_grams = PyNone
        /\ ret.filament_weight_grams # PyNone =>
              ret.estimated_cost_usd = Num(RoundCost(ret.filament_weight_grams.v))

\* The shared duration rule: hours = floor(minutes/60), mins = minutes mod 60;
\* "{mins}m" when hours is 0, "{hours}h {mins}m" when both are positive,
\* "{hours}h" when mins is 0.
DurationRule(minutes) ==
    LET whole == minutes.v \div Scale
        hours == whole \div 60
        mins  == whole % 60
    IN  IF hours = 0 THEN Str(StrOfNat(mins) \o <<"m">>)
        ELSE IF mins = 0 THEN Str(StrOfNat(hours) \o <<"h">>)
        ELSE Str(StrOfNat(hours) \o <<"h", " ">> \o StrOfNat(mins) \o <<"m">>)

\* C10: in every record of parse_slicer_output, estimated_time_formatted is
\* None exactly when estimated_time_minutes is None; known minutes, 0
\* included, are rendered by the shared duration rule ("0m" for 0).
C10_FormattedKnownIffMinutesKnown ==
    SlicerDone =>
        /\ ret.estimated_time_formatted = PyNone
              <=> ret.estimated_time_minutes = PyNone
        /\ ret.estimated_time_minutes # PyNone =>
              ret.estimated_time_formatted = DurationRule(ret.estimated_time_minutes)

(***************************************************************************)
(* server.py: _format_time_delta.  Its argument is a float; it is kept as  *)
(* the exact ratio n/d (d > 0), so that the quotient of a division is not  *)
(* rounded before its sign and its whole part are taken.                   *)
(***************************************************************************)
Ratio(n, d) == [n |-> n, d |-> d]
Abs(x) == IF x < 0 THEN -x ELSE x

\* A _format_time_delta that writes the minutes part of a whole number of
\* hours too.
FormatTimeDeltaWithZeroMinutes(minutes) ==
    LET sign  == IF minutes.n < 0 THEN "-" ELSE "+"
        whole == Abs(minutes.n) \div minutes.d
        hours == whole \div 60
        mins  == whole % 60
    IN  IF hours > 0
        THEN Str(<<sign>> \o StrOfNat(hours) \o <<"h", " ">>
                 \o StrOfNat(mins) \o <<"m">>)
        ELSE Str(<<sign>> \o StrOfNat(mins) \o <<"m">>)

\* _format_time_delta(minutes): int(minutes // 60) and int(minutes % 60) of
\* the absolute value are the whole part's quotient and remainder by 60.
_format_time_delta(minutes) ==
    LET sign  == IF minutes.n < 0 THEN "-" ELSE "+"
        whole == Abs(minutes.n) \div minutes.d
        hours == whole \div 60
        mins  == whole % 60
    IN  IF hours > 0
        THEN IF mins > 0
             THEN Str(<<sign>> \o StrOfNat(hours) \o <<"h", " ">>
                      \o StrOfNat(mins) \o <<"m">>)
             ELSE Str(<<sign>> \o StrOfNat(hours) \o <<"h">>)
        ELSE Str(<<sign>> \o StrOfNat(mins) \o <<"m">>)

\* Calls of _format_time_delta on the integers from -MaxDelta to MaxDelta.
MaxDelta == 130

InitDelta ==
    /\ pc = "start"
    /\ args \in {[fn |-> "_format_time_delta", minutes |-> d] :
                    d \in (-MaxDelta)..MaxDelta}
    /\ ret = PyNone
    /\ NoServer

FormatTimeDelta ==
    /\ pc = "start"
    /\ args.fn = "_format_time_delta"
    /\ ret' = _format_time_delta(Ratio(args.minutes, 1))
    /\ pc' = "done"
    /\ UNCHANGED <<args, server>>

SpecDelta == InitDelta /\ [][FormatTimeDelta]_vars

(***************************************************************************)
(* _format_time_delta: claim C11                                           *)
(***************************************************************************)
DeltaDone == pc = "done" /\ args.fn = "_format_time_delta"

\* C11: for every integer number of minutes d, _format_time_delta(d) is "-"
\* if d < 0 and "+" otherwise (zero is "+"), followed by the shared
\* hour/minute rendering of |d|; a whole number of hours has no minutes part.
C11_SignThenSharedRendering ==
    DeltaDone =>
        ret = Str(<<IF args.minutes < 0 THEN "-" ELSE "+">>
                  \o DurationRule(Whole(Abs(args.minutes))).v)

\* C11's case: a negative whole number of hours.
C11_Witness ==
    /\ DeltaDone
    /\ args.minutes = -120
    /\ ret = Str(<<"-", "2", "h">>)

(***************************************************************************)
(* server.py: _generate_recommendation.  A result is a dict, here a record *)
(* with the keys it holds: the record of run_slicer, or {"error": ...}.    *)
(* A message is the sequence of the parts of its f-string: Text for the    *)
(* literal parts, a Str for a preset name or a formatted delta.            *)
(***************************************************************************)
Text(s) == [t |-> "text", s |-> s]

\* dict.get(key)
DictGet(r, key) == IF key \in DOMAIN r THEN r[key] ELSE PyNone

\* str.capitalize()
UpperChar(c) ==
    IF \E i \in 1..26 : LowerChars[i] = c
    THEN UpperChars[CHOOSE i \in 1..26 : LowerChars[i] = c]
    ELSE c
Capitalize(s) ==
    IF Len(s) = 0 THEN s ELSE <<UpperChar(s[1])>> \o Lower(Tail(s))

FAST == <<"f","a","s","t">>
BALANCED == <<"b","a","l","a","n","c","e","d">>
STRONG == <<"s","t","r","o","n","g">>

\* The band of savings, in minutes, inside which the times count as similar.
SIMILAR_MINUTES == 30

MissingEstimates ==
    <<Text("Unable to generate recommendation: missing time estimates")>>
SwitchMessage(name, delta) ==
    <<Text("Recommendation: Use "), Str(name),
      Text(" profile. You'll save "), delta,
      Text(" per unit compared to current settings. This is optimal for minimizing print time.")>>
AlreadyOptimizedMessage(name, delta) ==
    <<Text("Current settings are already well-optimized. "), Str(name),
      Text(" profile saves only "), delta, Text(" per unit.")>>
SimilarTimesMessage(name, delta) ==
    <<Text("All profiles have similar print times. "), Str(name),
      Text(" profile saves "), delta,
      Text(" per unit. Consider your quality requirements when choosing.")>>

\* min(a, b, c) of three numbers: the first of the smallest.
Min3(a, b, c) ==
    IF a.v <= b.v /\ a.v <= c.v THEN a ELSE IF b.v <= c.v THEN b ELSE c

\* A _generate_recommendation whose bands include their boundaries.
GenerateRecommendationInclusive(current, fast, balanced, strong) ==
    IF \E r \in {current, fast, balanced, strong} :
          DictGet(r, "estimated_time_minutes") = PyNone
    THEN MissingEstimates
    ELSE LET fastest == Min3(fast.estimated_time_minutes,
                             balanced.estimated_time_minutes,
                             strong.estimated_time_minutes)
             savings == current.estimated_time_minutes.v - fastest.v
             delta   == _format_time_delta(Ratio(savings, Scale))
             fastest_name == IF fastest = fast.estimated_time_minutes THEN FAST
                             ELSE IF fastest = balanced.estimated_time_minutes
                             THEN BALANCED ELSE STRONG
         IN  IF savings >= SIMILAR_MINUTES * Scale
             THEN SwitchMessage(Capitalize(fastest_name), delta)
             ELSE IF savings <= -SIMILAR_MINUTES * Scale
             THEN AlreadyOptimizedMessage(Capitalize(FAST), delta)
             ELSE SimilarTimesMessage(Capitalize(FAST), delta)

_generate_recommendation(current, fast, balanced, strong) ==
    IF \E r \in {current, fast, balanced, strong} :
          DictGet(r, "estimated_time_minutes") = PyNone
    THEN MissingEstimates
    ELSE LET current_time  == current.estimated_time_minutes
             fast_time     == fast.estimated_time_minutes
             balanced_time == balanced.estimated_time_minutes
             strong_time   == strong.estimated_time_minutes
             fastest       == Min3(fast_time, balanced_time, strong_time)
             fastest_name  == IF fastest = fast_time THEN FAST
                              ELSE IF fastest = balanced_time THEN BALANCED
                              ELSE STRONG
             savings       == current_time.v - fastest.v
             delta         == _format_time_delta(Ratio(savings, Scale))
         IN  IF savings > SIMILAR_MINUTES * Scale
             THEN SwitchMessage(Capitalize(fastest_name), delta)
             ELSE IF savings < -SIMILAR_MINUTES * Scale
             THEN AlreadyOptimizedMessage(<<"F","a","s","t">>, delta)
             ELSE SimilarTimesMessage(<<"F","a","s","t">>, delta)

\* Results handed to _generate_recommendation: the dict of a failed preset,
\* a record without a time estimate, and records with the times below.
ErrorResult == [error |-> "error"]
EstimateMinutes == {Whole(0), Whole(30), Whole(60), Whole(61), Num(6050), Whole(100)}
SliceResults ==
    {ErrorResult} \cup
    {MetricsRecord(m, PyNone, PyNone, <<>>) : m \in {PyNone} \cup EstimateMinutes}

InitRecommend ==
    /\ pc = "start"
    /\ args \in {[fn |-> "_generate_recommendation", current |-> c, fast |-> f,
                  balanced |-> b, strong |-> g] :
                    c \in SliceResults \ {ErrorResult},
                    f \in SliceResults, b \in SliceResults, g \in SliceResults}
    /\ ret = PyNone
    /\ NoServer

GenerateRecommendation ==
    /\ pc = "start"
    /\ args.fn = "_generate_recommendation"
    /\ ret' = _generate_recommendation(args.current, args.fast,
                                       args.balanced, args.strong)
    /\ pc' = "done"
    /\ UNCHANGED <<args, server>>

SpecRecommend == InitRecommend /\ [][GenerateRecommendation]_vars

(***************************************************************************)
(* _generate_recommendation: claims C12 and C13                            *)
(***************************************************************************)
RecommendDone == pc = "done" /\ args.fn = "_generate_recommendation"

PresetOrder == <<"fast", "balanced", "strong">>
PresetNames == [fast |-> FAST, balanced |-> BALANCED, strong |-> STRONG]
TimeOf(r) == DictGet(r, "estimated_time_minutes")
AllEstimatesKnown ==
    \A k \in {"current", "fast", "balanced", "strong"} : TimeOf(args[k]) # PyNone

\* The fastest preset: the first, in the order fast, balanced, strong, of
\* those with the minimum time.
FastestPreset ==
    LET i == CHOOSE i \in 1..3 :
                /\ \A j \in 1..3 :
                      TimeOf(args[PresetOrder[i]]).v <= TimeOf(args[PresetOrder[j]]).v
                /\ \A j \in 1..(i - 1) :
                      TimeOf(args[PresetOrder[j]]).v > TimeOf(args[PresetOrder[i]]).v
    IN  PresetOrder[i]

\* The preset a message names, for the messages that name one.
NamesPreset(message) == Len(message) = 5
NamedPreset(message) == message[2]

\* C12: whenever all four time estimates are known, the preset that the
\* message names as the source of the reported savings is the fastest
\* preset (minimum time, ties to the first of fast, balanced, strong), in
\* every branch whose message names a preset.
C12_MessageNamesFastestPreset ==
    (RecommendDone /\ AllEstimatesKnown /\ NamesPreset(ret)) =>
        NamedPreset(ret) = Str(Capitalize(PresetNames[FastestPreset]))

\* The branch a message belongs to, by its opening words.
Branch(message) ==
    CASE message[1] = Text("Unable to generate recommendation: missing time estimates")
            -> "insufficient-data"
      [] message[1] = Text("Recommendation: Use ") -> "switch"
      [] message[1] = Text("Current settings are already well-optimized. ")
            -> "near-optimal"
      [] message[1] = Text("All profiles have similar print times. ") -> "similar-times"

\* savings = current_time - min(preset times), times Scale.
Savings == TimeOf(args.current).v - TimeOf(args[FastestPreset]).v

\* C13: _generate_recommendation selects its branch as a total function of
\* the four results: insufficient data if any lacks a time estimate (0 counts
\* as known); otherwise switch iff savings > 30, near-optimal iff
\* savings < -30, and similar-times for every other value, 30 and -30
\* included.
C13_BranchIsTotalFunctionOfSavings ==
    RecommendDone =>
        Branch(ret) =
            IF ~AllEstimatesKnown THEN "insufficient-data"
            ELSE IF Savings > 30 * Scale THEN "switch"
            ELSE IF Savings < -30 * Scale THEN "near-optimal"
            ELSE "similar-times"

\* C13's case: all four times known, one of them 0, and savings of exactly
\* 30 minutes.
C13_Witness ==
    /\ RecommendDone
    /\ AllEstimatesKnown
    /\ TimeOf(args.fast) = Whole(0)
    /\ Savings = 30 * Scale
    /\ Branch(ret) = "similar-times"

(***************************************************************************)
(* server.py: the tools.  The scratch directory is a function from the    *)
(* output directories the tools hand to run_slicer -- SLICE_OUTPUT_DIR     *)
(* itself ("root") and its subdirectories -- to the JSON result files      *)
(* each holds.  A file records the invocation that wrote it (the serial    *)
(* number of the tool call and the directory) and the document it holds.   *)
(***************************************************************************)
ScratchDirs == {"root", "current", "fast", "balanced", "strong", "baseline"}
profiles == <<"fast", "balanced", "strong">>
ValidProfileNames == {"current", "fast", "balanced", "strong"}

\* A _clean_slice_output that unlinks the files of SLICE_OUTPUT_DIR and
\* leaves its subdirectories.
CleanTopLevelFilesOnly(out) ==
    [d \in ScratchDirs |-> IF d = "root" THEN {} ELSE out[d]]
\* A _clean_slice_output that removes the subdirectories and leaves the
\* files of SLICE_OUTPUT_DIR.
CleanSubdirectoriesOnly(out) ==
    [d \in ScratchDirs |-> IF d = "root" THEN out[d] ELSE {}]

\* _clean_slice_output(): every file of SLICE_OUTPUT_DIR is unlinked and
\* every subdirectory removed with what it holds.
_clean_slice_output(out) == [d \in ScratchDirs |-> {}]

\* Lines 278-329 of calculate_batch_metrics: the result record from the
\* baseline and the profile's metrics.  The record is modelled by its keys
\* quantity, profile, per_unit_time and comparison_vs_current; the rounded
\* totals (total_time_hours, total_time_formatted, total_filament_kg,
\* total_cost_usd) are plain arithmetic that raises nothing and are left out.
BatchMetrics(baseline, profile_result, quantity, profile_name) ==
    LET time_per_unit == DictGet(profile_result, "estimated_time_minutes")
        baseline_time == DictGet(baseline, "estimated_time_minutes")
    IN  IF time_per_unit = PyNone THEN Raise("ValueError")
        ELSE
        LET whole          == time_per_unit.v \div Scale
            per_unit_hours == whole \div 60
            per_unit_mins  == whole % 60
            per_unit_time  ==
                IF per_unit_hours > 0
                THEN Str(StrOfNat(per_unit_hours) \o <<"h", " ">>
                         \o StrOfNat(per_unit_mins) \o <<"m">>)
                ELSE Str(StrOfNat(per_unit_mins) \o <<"m">>)
            time_delta == (time_per_unit.v - baseline_time.v) * quantity
            comparison ==
                IF Truthy(baseline_time) /\ profile_name # "current"
                THEN <<_format_time_delta(Ratio(time_delta, 60 * Scale)),
                       Text(" vs. current settings")>>
                ELSE <<Text("baseline")>>
        IN  [quantity |-> quantity,
             profile |-> profile_name,
             per_unit_time |-> per_unit_time,
             comparison_vs_current |-> comparison]

\* What one run of the slicer binary does (subprocess.run in run_slicer):
\* it exits with 0, exits with another code, or outlives the timeout; it may
\* write a JSON result file into its output directory; it prints stdout.
JsonOfMinutes(m) ==
    [k \in JsonKeys |-> IF k = "estimated_time_minutes" THEN m ELSE PyNone]
SlicerRuns ==
    { [exit |-> "ok", json |-> JsonOfMinutes(Whole(60)), stdout |-> <<>>],
      [exit |-> "ok", json |-> PyNone,
       stdout |-> <<"E","s","t","i","m","a","t","e","d"," ","t","i","m","e",
                    ":"," ","1","h"," ","3","0","m">>],
      [exit |-> "fail", json |-> PyNone, stdout |-> <<>>],
      [exit |-> "timeout", json |-> PyNone, stdout |-> <<>>] }
NoRun == [exit |-> "none", json |-> PyNone, stdout |-> <<>>]

\* A tool call.  pc is where it stands: about to clean the scratch
\* directory, about to call run_slicer for target, waiting for the slicer,
\* about to parse its output, or over (returned / raised).  results holds
\* what run_slicer returned per target; started, timed_out, stale, foreign
\* and lost record what happened to it (the invocations it started, whether one
\* timed out, started in a directory that held a file, parsed a file written
\* by another invocation, or found its own file gone); swept, the directories
\* in which its _clean_slice_output found a file to delete.
Unset == [t |-> "unset"]
Idle ==
    [tool |-> "none", quantity |-> 1, profile_name |-> "current", serial |-> 0,
     pc |-> "idle", target |-> "root", results |-> [d \in ScratchDirs |-> Unset],
     proc |-> NoRun, ret |-> PyNone, cleaned |-> FALSE, started |-> <<>>,
     timed_out |-> FALSE, stale |-> FALSE, foreign |-> FALSE, lost |-> FALSE,
     swept |-> {}]
AtRest(call) == call.pc \in {"idle", "returned", "raised"}

\* The directory of the first run_slicer call of a tool.
FirstTarget(tool) ==
    CASE tool = "analyze_current_print"   -> "root"
      [] tool = "compare_print_profiles"  -> "current"
      [] tool = "calculate_batch_metrics" -> "baseline"

\* The directory of the run_slicer call that follows the one for target,
\* "none" when that one was the last.
NextTarget(call) ==
    CASE call.tool = "analyze_current_print" -> "none"
      [] call.tool = "compare_print_profiles" ->
            (CASE call.target = "current"  -> "fast"
               [] call.target = "fast"     -> "balanced"
               [] call.target = "balanced" -> "strong"
               [] call.target = "strong"   -> "none")
      [] call.tool = "calculate_batch_metrics" ->
            IF call.target = "baseline" /\ call.profile_name # "current"
            THEN call.profile_name ELSE "none"

\* The end of a tool once its run_slicer calls are over.
Finish(call) ==
    CASE call.tool = "analyze_current_print" ->
            [call EXCEPT !.pc = "returned", !.ret = call.results["root"]]
      [] call.tool = "compare_print_profiles" ->
            [call EXCEPT !.pc = "returned",
                !.ret = [current  |-> call.results["current"],
                         fast     |-> call.results["fast"],
                         balanced |-> call.results["balanced"],
                         strong   |-> call.results["strong"],
                         recommendation |->
                            _generate_recommendation(call.results["current"],
                                call.results["fast"], call.results["balanced"],
                                call.results["strong"])]]
      [] call.tool = "calculate_batch_metrics" ->
            LET profile_result ==
                    IF call.profile_name = "current"
                    THEN call.results["baseline"]
                    ELSE call.results[call.profile_name]
                result == BatchMetrics(call.results["baseline"], profile_result,
                                       call.quantity, call.profile_name)
            IN  [call EXCEPT !.pc = IF Raised(result) THEN "raised" ELSE "returned",
                             !.ret = result]

\* The call once the entry of results for its target is written.
After(call) ==
    IF NextTarget(call) = "none" THEN Finish(call)
    ELSE [call EXCEPT !.pc = "run", !.target = NextTarget(call)]

\* The call once run_slicer has raised exc for its target:
\* compare_print_profiles catches what a preset's run raises and stores it
\* (lines 204-208); everything else reaches the tool's handler, which logs
\* and raises again.
Thrown(call, exc) ==
    IF call.tool = "compare_print_profiles" /\ call.target # "current"
    THEN After([call EXCEPT !.results[call.target] = [error |-> exc]])
    ELSE [call EXCEPT !.pc = "raised", !.ret = Raise(exc)]

\* The machines the server runs on: with or without the slicer binary, the
\* model file and the profile file of the last preset.
Envs ==
    { [cli |-> TRUE, file |-> TRUE, profiles |-> {"fast", "balanced", "strong"}],
      [cli |-> TRUE, file |-> TRUE, profiles |-> {"fast", "balanced"}],
      [cli |-> FALSE, file |-> TRUE, profiles |-> {"fast", "balanced", "strong"}],
      [cli |-> TRUE, file |-> FALSE, profiles |-> {"fast", "balanced", "strong"}] }

\* The tool calls: up to MaxCalls of them are served, up to MaxInFlight at
\* once where calls overlap.
MaxCalls == 2
MaxInFlight == 2
Quantities == {-1, 0, 1, 10}
ProfileNames == ValidProfileNames \cup {"draft"}
Request(tool, quantity, profile_name) ==
    [tool |-> tool, quantity |-> quantity, profile_name |-> profile_name]
Requests ==
    {Request("analyze_current_print", 1, "current"),
     Request("compare_print_profiles", 1, "current")}
    \cup {Request("calculate_batch_metrics", q, p) :
            q \in Quantities, p \in ProfileNames}
OverlappingRequests == {Request("analyze_current_print", 1, "current")}

InitServer ==
    /\ pc = "server" /\ args = PyNone /\ ret = PyNone
    /\ calls = [c \in {1} |-> Idle]
    /\ slice_output = [d \in ScratchDirs |-> {}]
    /\ served = 0
    /\ env \in Envs

InitOverlapping ==
    /\ pc = "server" /\ args = PyNone /\ ret = PyNone
    /\ calls = [c \in 1..MaxInFlight |-> Idle]
    /\ slice_output = [d \in ScratchDirs |-> {}]
    /\ served = 0
    /\ env \in {e \in Envs : e.cli /\ e.file}

\* The entry of a tool, up to its first effect.  calculate_batch_metrics
\* checks profile_name first (lines 247-251) and nothing else.
Entered(c, req) ==
    LET call == [Idle EXCEPT !.tool = req.tool, !.quantity = req.quantity,
                             !.profile_name = req.profile_name,
                             !.serial = served + 1]
    IN  /\ served < MaxCalls
        /\ served' = served + 1
        /\ calls' = [calls EXCEPT ![c] =
              IF /\ req.tool = "calculate_batch_metrics"
                 /\ req.profile_name \notin ValidProfileNames
              THEN [call EXCEPT !.pc = "raised", !.ret = Raise("ValueError")]
              ELSE [call EXCEPT !.pc = "clean"]]
        /\ UNCHANGED <<pc, args, ret, slice_output, env>>

\* A tool call arrives when no other is in flight.
ServeCall ==
    /\ \A c \in DOMAIN calls : AtRest(calls[c])
    /\ \E req \in Requests : Entered(1, req)

\* A tool call arrives, whatever else is in flight.
ServeOverlappingCall ==
    \E c \in DOMAIN calls :
        /\ AtRest(calls[c])
        /\ \E req \in OverlappingRequests : Entered(c, req)

\* _clean_slice_output() at the head of a tool.
CleanSliceOutput ==
    \E c \in DOMAIN calls :
        /\ calls[c].pc = "clean"
        /\ slice_output' = _clean_slice_output(slice_output)
        /\ calls' = [calls EXCEPT ![c] =
              [calls[c] EXCEPT !.pc = "run",
                        !.target = FirstTarget(calls[c].tool),
                        !.cleaned = TRUE,
                        !.swept = {d \in ScratchDirs : slice_output[d] # {}}]]
        /\ UNCHANGED <<pc, args, ret, served, env>>

\* The tool reaches its next run_slicer call: a preset whose profile file is
\* missing is skipped (compare_print_profiles, lines 190-195) or fatal
\* (calculate_batch_metrics, lines 269-270); run_slicer raises
\* FileNotFoundError without the binary or the model file (lines 66-75), and
\* otherwise makes the output directory and starts the slicer.
StartSlicer ==
    \E c \in DOMAIN calls :
        LET call == calls[c]
        IN  /\ call.pc = "run"
            /\ calls' = [calls EXCEPT ![c] =
                  IF call.target \in {"fast", "balanced", "strong"}
                     /\ call.target \notin env.profiles
                  THEN IF call.tool = "compare_print_profiles"
                       THEN After([call EXCEPT !.results[call.target] =
                                      [error |-> "Profile file not found"]])
                       ELSE [call EXCEPT !.pc = "raised",
                                         !.ret = Raise("FileNotFoundError")]
                  ELSE IF ~env.cli \/ ~env.file
                  THEN Thrown(call, "FileNotFoundError")
                  ELSE [call EXCEPT !.pc = "wait",
                            !.started = Append(@, call.target),
                            !.stale = @ \/ slice_output[call.target] # {}]]
            /\ UNCHANGED <<pc, args, ret, slice_output, served, env>>

\* The slicer ends (lines 105-128 of run_slicer): its result file, if it
\* wrote one, is in the output directory; a non-zero exit raises ValueError,
\* an expired timeout TimeoutExpired.
SlicerExits ==
    \E c \in DOMAIN calls : \E run \in SlicerRuns :
        LET call == calls[c]
            file == [by |-> <<call.serial, call.target>>, data |-> run.json]
        IN  /\ call.pc = "wait"
            /\ slice_output' =
                  IF run.json = PyNone THEN slice_output
                  ELSE [slice_output EXCEPT ![call.target] = @ \cup {file}]
            /\ calls' = [calls EXCEPT ![c] =
                  CASE run.exit = "ok" -> [call EXCEPT !.pc = "parse", !.proc = run]
                    [] run.exit = "fail" -> Thrown(call, "ValueError")
                    [] run.exit = "timeout" ->
                          Thrown([call EXCEPT !.timed_out = TRUE], "TimeoutExpired")]
            /\ UNCHANGED <<pc, args, ret, served, env>>

\* parse_slicer_output(output_dir, stdout, stderr) at the end of run_slicer
\* (line 121): json_files[0] is any of the JSON files the directory holds.
ParseOutput ==
    \E c \in DOMAIN calls :
        LET call  == calls[c]
            files == slice_output[call.target]
            mine  == <<call.serial, call.target>>
            Parsed_(dir, f) ==
                After([call EXCEPT
                    !.results[call.target] =
                        parse_slicer_output(dir, call.proc.stdout, <<>>),
                    !.foreign = @ \/ f # mine,
                    !.lost = @ \/ (call.proc.json # PyNone
                                   /\ \A g \in files : g.by # mine)])
        IN  /\ call.pc = "parse"
            /\ IF files = {}
               THEN calls' = [calls EXCEPT ![c] = Parsed_([k |-> "nofile"], mine)]
               ELSE \E f \in files :
                      calls' = [calls EXCEPT ![c] =
                                  Parsed_([k |-> "object", data |-> f.data], f.by)]
            /\ UNCHANGED <<pc, args, ret, slice_output, served, env>>

NextServer ==
    ServeCall \/ CleanSliceOutput \/ StartSlicer \/ SlicerExits \/ ParseOutput
NextOverlapping ==
    ServeOverlappingCall \/ CleanSliceOutput \/ StartSlicer \/ SlicerExits
    \/ ParseOutput

SpecServer == InitServer /\ [][NextServer]_vars
SpecOverlapping == InitOverlapping /\ [][NextOverlapping]_vars

(***************************************************************************)
(* calculate_batch_metrics and compare_print_profiles: claims C14-C16      *)
(***************************************************************************)
BatchCalls ==
    {c \in DOMAIN calls : calls[c].tool = "calculate_batch_metrics"}
CompareCalls ==
    {c \in DOMAIN calls : calls[c].tool = "compare_print_profiles"}

\* The delta formatter on a whole difference of minutes (times Scale): the
\* sign, then the shared hour/minute rendering of the absolute value.
DeltaOfMinutes(diff) ==
    Str(<<IF diff < 0 THEN "-" ELSE "+">> \o DurationRule(Num(Abs(diff))).v)

\* C14: in calculate_batch_metrics with a non-current profile and a known
\* baseline time, comparison_vs_current is the delta formatter applied to
\* the batch difference in minutes, (time_per_unit - baseline_time) *
\* quantity: per-unit 60 against baseline 90 at quantity 10 reads "-5h".
C14_ComparisonShowsBatchDifference ==
    \A c \in BatchCalls :
        LET call          == calls[c]
            baseline_time == TimeOf(call.results["baseline"])
            time_per_unit == TimeOf(call.results[call.profile_name])
        IN  (/\ call.pc = "returned"
             /\ call.profile_name # "current"
             /\ baseline_time # PyNone) =>
                call.ret.comparison_vs_current =
                    <<DeltaOfMinutes((time_per_unit.v - baseline_time.v)
                                     * call.quantity),
                      Text(" vs. current settings")>>

\* C15: calculate_batch_metrics rejects an unrecognized profile name or a
\* quantity <= 0 before anything else: it raises the invalid-request error
\* without clearing the scratch directory, without invoking the slicer and
\* without returning a result record.
C15_InvalidRequestRejectedFirst ==
    \A c \in BatchCalls :
        LET call == calls[c]
        IN  (call.profile_name \notin ValidProfileNames \/ call.quantity <= 0) =>
                /\ ~call.cleaned
                /\ call.started = <<>>
                /\ call.pc # "returned"
                /\ call.pc = "raised" => call.ret = Raise("ValueError")

\* C16: a timeout of any of the four slicer invocations of
\* compare_print_profiles ends the request: the timeout is raised to the
\* caller, no comparison report is returned, no further invocation is made
\* and the one that timed out is not started again.
C16_TimeoutEndsComparison ==
    \A c \in CompareCalls :
        LET call == calls[c]
        IN  call.timed_out =>
                /\ call.pc = "raised"
                /\ call.ret = Raise("TimeoutExpired")
                /\ call.started[Len(call.started)] = call.target
                /\ \A i, j \in 1..Len(call.started) :
                      call.started[i] = call.started[j] => i = j

(***************************************************************************)
(* The scratch directory: claims C17 and C18                               *)
(***************************************************************************)
Invocation(call) == <<call.serial, call.target>>

\* C17: when tool calls run one after another, every slicer invocation
\* starts in an output directory that holds no result file of an earlier
\* invocation, so the JSON file parse_slicer_output reads after an
\* invocation was written by that invocation.
C17_SequentialInvocationsStartClean ==
    \A c \in DOMAIN calls :
        LET call == calls[c]
        IN  /\ ~call.stale
            /\ ~call.foreign
            /\ call.pc \in {"wait", "parse"} =>
                  \A f \in slice_output[call.target] : f.by = Invocation(call)

\* C17's case: a later tool call, whose _clean_slice_output deleted a result
\* file from the directory it now uses, about to parse the file its own
\* invocation wrote there.
C17_Witness ==
    \E c \in DOMAIN calls :
        /\ calls[c].serial > 1
        /\ calls[c].pc = "parse"
        /\ calls[c].target \in calls[c].swept
        /\ \E f \in slice_output[calls[c].target] : f.by = Invocation(calls[c])

\* C18: the scratch directory is not safe for two tool calls in flight at
\* once.  Whenever a call runs _clean_slice_output, every result file in the
\* directory is deleted, those staged by another call's invocation and not
\* yet parsed included; the witness is the interleaving in which that
\* happens to a call.
C18_CleanDeletesFilesOthersStaged ==
    [][\A c \in DOMAIN calls :
          (calls[c].pc = "clean" /\ calls'[c].pc # "clean") =>
              \A d \in ScratchDirs : slice_output'[d] = {}]_vars

\* C18's case: a call whose invocation wrote a result file found it gone
\* when it parsed, while the other call, which has cleaned, is in flight.
C18_Witness ==
    \E c, o \in DOMAIN calls :
        /\ c # o
        /\ calls[c].lost
        /\ calls[o].cleaned
        /\ ~AtRest(calls[o])

(***************************************************************************)
(* Calls of _extract_time_estimate on lines of a slice-info entry: a label *)
(* (or none), a duration (or a word) and the rest of the line.             *)
(***************************************************************************)
EstimateLabels ==
    << <<"e","s","t","i","m","a","t","e","d","_","t","i","m","e",":"," ">>,
       <<"p","r","i","n","t"," ","t","i","m","e"," ">>,
       <<"T","h","e"," ","t","i","m","e",":"," ">>,
       <<"t","i","m","e",":"," ">>,
       <<"T","i","m","e"," ","(","t","h","i","s"," ","m","a","c","h","i","n","e",")",":"," ">>,
       <<>> >>
EstimateDurations ==
    << <<"7","5"," ","m","i","n","u","t","e","s">>,
       <<"9","m">>,
       <<"1","2"," ","m","i","n">>,
       <<"2","h">>,
       <<"1","h"," ","1","5","m">>,
       <<"u","n","k","n","o","w","n">> >>
EstimateRests ==
    << <<>>,
       <<" ","l","e","f","t">>,
       <<" ","o","n"," ","t","h","e"," ","p","r","i","n","t","e","r">> >>
EstimateLines ==
    {EstimateLabels[i] \o EstimateDurations[j] \o EstimateRests[k] :
        i \in 1..Len(EstimateLabels), j \in 1..Len(EstimateDurations),
        k \in 1..Len(EstimateRests)}

InitEstimate ==
    /\ pc = "start"
    /\ args \in {[fn |-> "_extract_time_estimate", line |-> l] : l \in EstimateLines}
    /\ ret = PyNone
    /\ NoServer

ExtractTimeEstimate ==
    /\ pc = "start"
    /\ args.fn = "_extract_time_estimate"
    /\ ret' = _extract_time_estimate(args.line)
    /\ pc' = "done"
    /\ UNCHANGED <<args, server>>

SpecEstimate == InitEstimate /\ [][ExtractTimeEstimate]_vars

(***************************************************************************)
(* _extract_time_estimate: claim C19                                       *)
(***************************************************************************)
EstimateDone == pc = "done" /\ args.fn = "_extract_time_estimate"

\* A line whose only time form is a minute-only number.
OnlyMinuteForm(line) ==
    /\ Matches(MinuteForm, line)
    /\ ~Matches(HourMinuteForm, line)
    /\ ~Matches(HourForm, line)

\* C19: _extract_time_estimate reports a single-number match as hours only
\* if the matched span holds an hour marker: on a line whose only time form
\* is a minute-only number M the result is "<M>m", whatever else the line
\* holds.
C19_MinuteOnlyLineGivesMinutes ==
    (EstimateDone /\ OnlyMinuteForm(args.line)) =>
        ret = Str(Search(MinuteForm, args.line).g[1] \o <<"m">>)

====
